---- MODULE Spec2Model ----
(***************************************************************************)
(* Timetable generator front end.                                          *)
(*                                                                         *)
(*   SpecSync : TimetableInputForm, the class/subject edits and the        *)
(*              auto-sync effect that reconciles teachers, lab_teachers    *)
(*              and lab_rooms with the subjects of the classes.            *)
(*   SpecGen  : MultipleTimetableGenerator and TimetableAPI, the generate  *)
(*              batch, the tab selection and the teacher reset.            *)
(*   SpecOrder : the class/subject edits and the auto-sync effect, from a  *)
(*              form that already holds teachers and lab rooms.            *)
(*   SpecLecture : the subject edits, the auto-sync effect and the weekly  *)
(*              lecture requirement inputs.                                *)
(*   SpecRender : renderCell of TimetableDisplay over the props it is      *)
(*              handed.                                                    *)
(*   SpecApp  : TimetableApp, its validation, navigation, localStorage     *)
(*              copy, Clear All and Import, around the mounted form.       *)
(*   SpecNav  : the generator as TimetableApp mounts and unmounts it: the  *)
(*              generator's steps with the navigation and Clear All.       *)
(*   SpecValue : the value edits of TimetableInputForm (teacher rows, lab  *)
(*              list, lab room assignments) on a form that holds values.   *)
(*   SpecGenFair : SpecGen with a Solver that answers every request and    *)
(*              timers that fire.                                          *)
(***************************************************************************)
EXTENDS Integers, Sequences, FiniteSets, TLC

VARIABLES
    \* TimetableInputForm: inputData
    classes,          \* inputData.classes: sequence of [subjects, lab_subjects]
    teachers,         \* inputData.teachers: subject -> list of teacher names
    lab_teachers,     \* inputData.lab_teachers: lab subject -> list of teacher names
    lab_rooms,        \* inputData.lab_rooms: lab subject -> list of room names
    labs,             \* inputData.labs: list of lab room names
    fresh,            \* <<field, key>> of the arrays the last state update created
    syncPending,      \* the [inputData.classes] effect is scheduled and has not run
    lecture_requirements, \* inputData.lecture_requirements: subject -> number
    \* MultipleTimetableGenerator
    timetables,       \* useState([]): list of variants
    currentTimetable, \* useState(0): 0-based index of the selected tab
    loading,          \* useState(false)
    error,            \* useState(null)
    generationCount,  \* useState(3)
    batches,          \* outstanding TimetableAPI.generateMultipleTimetables calls
    resets,           \* outstanding handleResetTeacher calls
    resetCount,       \* number of reset clicks so far (bounded by MaxResets)
    \* TimetableApp
    inputData,        \* useState(null): the configuration the app holds
    currentStep,      \* useState('input'): 'input' or 'generate'
    isValidInput,     \* useState(false)
    stored,           \* localStorage item 'timetable_input_data'
    loadPending,      \* the load-on-mount effect has not run yet
    savePending,      \* the [inputData] auto-save effect is scheduled and has not run
    reader,           \* text of the file a FileReader is reading, or Null
    alertMessage,     \* text of the last alert() shown
    \* TimetableDisplay
    props,            \* timetableData and inputData handed to the component
    cell              \* what renderCell returned last

formVars == <<classes, teachers, lab_teachers, lab_rooms, labs, fresh, syncPending,
              lecture_requirements>>
genVars  == <<timetables, currentTimetable, loading, error, generationCount,
              batches, resets, resetCount>>
appVars  == <<inputData, currentStep, isValidInput, stored, loadPending,
              savePending, reader, alertMessage>>
renderVars == <<props, cell>>
vars     == <<classes, teachers, lab_teachers, lab_rooms, labs, fresh, syncPending,
              lecture_requirements,
              timetables, currentTimetable, loading, error, generationCount,
              batches, resets, resetCount,
              inputData, currentStep, isValidInput, stored, loadPending,
              savePending, reader, alertMessage, props, cell>>

\* What a handler of one component leaves alone in the others
outsideForm == <<genVars, appVars, renderVars>>
outsideGen == <<formVars, appVars, renderVars>>
outsideApp == <<formVars, genVars, renderVars>>
outsideRender == <<formVars, genVars, appVars>>

Range(s) == {s[i] : i \in 1..Len(s)}

\* s without its i-th element (1-based): Array.prototype.filter((_, j) => j !== i)
RemoveAt(s, i) == [j \in 1..(Len(s) - 1) |-> IF j < i THEN s[j] ELSE s[j + 1]]

(***************************************************************************)
(* Bounds of the model: MaxClasses classes in the form, MaxSubjects        *)
(* subject inputs (theory and lab) over all classes, MaxTeachers teacher   *)
(* inputs looked at per subject, MaxLabs lab room inputs, MaxResets        *)
(* teacher resets clicked.                                                 *)
(***************************************************************************)
MaxClasses == 1
MaxSubjects == 2
MaxTeachers == 1
MaxLabs == 1
MaxResets == 2

\* What the user can type into a subject input: the empty string a new input
\* holds, a string of white space, and two names.
SubjectNames == {"", " ", "Math", "Physics"}
TeacherNames == {"", "Dr.X"}
RoomNames == {"", "Lab 1"}

(***************************************************************************)
(* TimetableInputForm                                                      *)
(***************************************************************************)
\* String.prototype.trim on the strings of the model
Trim(s) == IF s = " " THEN "" ELSE s

NewClass == [subjects |-> <<>>, lab_subjects |-> <<>>]

\* The subject inputs shown over all classes
SubjectInputs(cls) ==
    LET Sum[i \in 0..Len(cls)] ==
            IF i = 0 THEN 0
            ELSE Sum[i - 1] + Len(cls[i].subjects) + Len(cls[i].lab_subjects)
    IN  Sum[Len(cls)]

\* .filter(subject => subject.trim() !== '')
NonBlank(names) == {s \in names : Trim(s) # ""}

getAllSubjects(cls) ==
    NonBlank(UNION {Range(cls[i].subjects) : i \in 1..Len(cls)})

getAllLabSubjects(cls) ==
    NonBlank(UNION {Range(cls[i].lab_subjects) : i \in 1..Len(cls)})

\* Every subject is given a new array, whether or not it has one
AllocatedAlways(map, subjects) == subjects

\* The subjects for which the effect creates a new array: if (!newMap[subject])
Allocated(map, subjects) == {s \in subjects : s \notin DOMAIN map}

\* A missing subject is given an empty array, whatever init is
AddMissingEmpty(map, subjects, init) ==
    [s \in (DOMAIN map) \cup subjects |->
        IF s \in Allocated(map, subjects) THEN <<>> ELSE map[s]]

\* "Add missing subjects": newMap[subject] = init for the allocated ones
AddMissing(map, subjects, init) ==
    [s \in (DOMAIN map) \cup subjects |->
        IF s \in Allocated(map, subjects) THEN init ELSE map[s]]

\* No key is deleted
RemoveNone(map, subjects) == map

\* "Remove subjects that no longer exist": delete newMap[subject]
RemoveStale(map, subjects) ==
    [s \in {k \in DOMAIN map : k \in subjects} |-> map[s]]

\* The map is built anew from the subjects
ReconcileRebuild(map, subjects, init) == [s \in subjects |-> init]

\* The state update of the auto-sync effect, for one map
Reconcile(map, subjects, init) ==
    RemoveStale(AddMissing(map, subjects, init), subjects)

\* The three maps after the effect has run on the classes cls
SyncResult(cls, t, lt, lr) ==
    LET theorySubjects == getAllSubjects(cls)
        labSubjects    == getAllLabSubjects(cls)
    IN  [teachers     |-> Reconcile(t, theorySubjects, <<"">>),
         lab_teachers |-> Reconcile(lt, labSubjects, <<"">>),
         lab_rooms    |-> Reconcile(lr, labSubjects, <<>>),
         fresh        |->
             {<<"teachers", s>> : s \in Allocated(t, theorySubjects)}
             \cup {<<"lab_teachers", s>> : s \in Allocated(lt, labSubjects)}
             \cup {<<"lab_rooms", s>> : s \in Allocated(lr, labSubjects)}]

\* useEffect(() => {...}, [inputData.classes])
Sync ==
    /\ syncPending
    /\ LET r == SyncResult(classes, teachers, lab_teachers, lab_rooms)
       IN  /\ teachers' = r.teachers
           /\ lab_teachers' = r.lab_teachers
           /\ lab_rooms' = r.lab_rooms
           /\ fresh' = r.fresh
    /\ syncPending' = FALSE
    /\ UNCHANGED <<classes, labs, lecture_requirements, outsideForm>>

\* A handler that replaces inputData.classes: the maps are carried over by
\* ...prev and the effect is scheduled. React runs a scheduled effect before
\* it handles the next event.
SetClasses(cls) ==
    /\ ~syncPending
    /\ classes' = cls
    /\ syncPending' = TRUE
    /\ fresh' = {}
    /\ UNCHANGED <<teachers, lab_teachers, lab_rooms, labs, lecture_requirements,
                   outsideForm>>

addClass ==
    /\ Len(classes) < MaxClasses
    /\ SetClasses(Append(classes, NewClass))

removeClass(index) ==
    /\ index \in 1..Len(classes)
    /\ SetClasses(RemoveAt(classes, index))

Field(isLab) == IF isLab THEN "lab_subjects" ELSE "subjects"

addSubjectToClass(classIndex, isLab) ==
    /\ classIndex \in 1..Len(classes)
    /\ SubjectInputs(classes) < MaxSubjects
    /\ SetClasses([classes EXCEPT ![classIndex][Field(isLab)] = Append(@, "")])

updateClassSubject(classIndex, subjectIndex, value, isLab) ==
    /\ classIndex \in 1..Len(classes)
    /\ subjectIndex \in 1..Len(classes[classIndex][Field(isLab)])
    /\ SetClasses([classes EXCEPT ![classIndex][Field(isLab)][subjectIndex] = value])

removeSubjectFromClass(classIndex, subjectIndex, isLab) ==
    /\ classIndex \in 1..Len(classes)
    /\ subjectIndex \in 1..Len(classes[classIndex][Field(isLab)])
    /\ SetClasses([classes EXCEPT
                     ![classIndex][Field(isLab)] = RemoveAt(@, subjectIndex)])

\* The map a teacher handler works on
TeacherMap(isLab) == IF isLab THEN lab_teachers ELSE teachers
TeacherField(isLab) == IF isLab THEN "lab_teachers" ELSE "teachers"

\* The handler writes a map that holds the one subject: the spread of the
\* previous map is left out
SetTeacherListAlone(subject, isLab, list) ==
    /\ ~syncPending
    /\ IF isLab
         THEN /\ lab_teachers' = [s \in {subject} |-> list]
              /\ UNCHANGED teachers
         ELSE /\ teachers' = [s \in {subject} |-> list]
              /\ UNCHANGED lab_teachers
    /\ fresh' = {<<TeacherField(isLab), subject>>}
    /\ UNCHANGED <<classes, lab_rooms, labs, syncPending, lecture_requirements,
                   outsideForm>>

\* A handler that replaces the teacher list of one subject
SetTeacherList(subject, isLab, list) ==
    /\ ~syncPending
    /\ IF isLab
         THEN /\ lab_teachers' = [s \in DOMAIN lab_teachers \cup {subject} |->
                                    IF s = subject THEN list ELSE lab_teachers[s]]
              /\ UNCHANGED teachers
         ELSE /\ teachers' = [s \in DOMAIN teachers \cup {subject} |->
                                IF s = subject THEN list ELSE teachers[s]]
              /\ UNCHANGED lab_teachers
    /\ fresh' = {<<TeacherField(isLab), subject>>}
    /\ UNCHANGED <<classes, lab_rooms, labs, syncPending, lecture_requirements,
                   outsideForm>>

\* The teacher rows are rendered for getAllSubjects() / getAllLabSubjects()
ShownSubjects(isLab) ==
    IF isLab THEN getAllLabSubjects(classes) ELSE getAllSubjects(classes)

updateTeacher(subject, teacherIndex, value, isLab) ==
    /\ subject \in ShownSubjects(isLab)
    /\ subject \in DOMAIN TeacherMap(isLab)
    /\ teacherIndex \in 1..Len(TeacherMap(isLab)[subject])
    /\ SetTeacherList(subject, isLab,
                      [TeacherMap(isLab)[subject] EXCEPT ![teacherIndex] = value])

\* A handler that replaces inputData.labs (the isLab case of the room handlers)
SetLabs(list) ==
    /\ ~syncPending
    /\ labs' = list
    /\ fresh' = {}
    /\ UNCHANGED <<classes, teachers, lab_teachers, lab_rooms, syncPending,
                   lecture_requirements, outsideForm>>

addRoom ==
    /\ Len(labs) < MaxLabs
    /\ SetLabs(Append(labs, ""))

updateRoom(index, value) ==
    /\ index \in 1..Len(labs)
    /\ SetLabs([labs EXCEPT ![index] = value])

removeRoom(index) ==
    /\ index \in 1..Len(labs)
    /\ SetLabs(RemoveAt(labs, index))

\* prev.lab_rooms[labSubject] || []
RoomsOf(labSubject) ==
    IF labSubject \in DOMAIN lab_rooms THEN lab_rooms[labSubject] ELSE <<>>

\* currentRooms.filter(room => room !== labRoom)
Without(list, labRoom) == SelectSeq(list, LAMBDA room : room # labRoom)

\* The checkboxes are rendered for getAllLabSubjects() and the non-blank labs
toggleLabRoomAssignment(labSubject, labRoom) ==
    /\ ~syncPending
    /\ labSubject \in getAllLabSubjects(classes)
    /\ labRoom \in NonBlank(Range(labs))
    /\ lab_rooms' =
          [s \in DOMAIN lab_rooms \cup {labSubject} |->
              IF s # labSubject THEN lab_rooms[s]
              ELSE IF labRoom \in Range(RoomsOf(labSubject))
                   THEN Without(RoomsOf(labSubject), labRoom)
                   ELSE Append(RoomsOf(labSubject), labRoom)]
    /\ fresh' = {<<"lab_rooms", labSubject>>}
    /\ UNCHANGED <<classes, teachers, lab_teachers, labs, syncPending,
                   lecture_requirements, outsideForm>>

\* A handler that replaces the room list of one lab subject
SetLabRooms(labSubject, list) ==
    /\ ~syncPending
    /\ lab_rooms' = [s \in DOMAIN lab_rooms \cup {labSubject} |->
                       IF s = labSubject THEN list ELSE lab_rooms[s]]
    /\ fresh' = {<<"lab_rooms", labSubject>>}
    /\ UNCHANGED <<classes, teachers, lab_teachers, labs, syncPending,
                   lecture_requirements, outsideForm>>

\* The room buttons are rendered when a lab subject and a non-blank lab exist
RoomButtonsShown(labSubject) ==
    /\ labSubject \in getAllLabSubjects(classes)
    /\ NonBlank(Range(labs)) # {}

\* prev.labs.filter(room => room.trim() !== '')
NamedLabs(list) == SelectSeq(list, LAMBDA room : Trim(room) # "")

selectAllLabRooms(labSubject) ==
    /\ RoomButtonsShown(labSubject)
    /\ SetLabRooms(labSubject, NamedLabs(labs))

clearAllLabRooms(labSubject) ==
    /\ RoomButtonsShown(labSubject)
    /\ SetLabRooms(labSubject, <<>>)

\* prev[field][subject] ? [...prev[field][subject], ''] : ['']
Added(map, subject) ==
    IF subject \in DOMAIN map THEN Append(map[subject], "") ELSE <<"">>

\* (inputData.teachers[subject] || ['']) is the list of rendered rows
TeacherRows(subject, isLab) ==
    IF subject \in DOMAIN TeacherMap(isLab)
    THEN TeacherMap(isLab)[subject] ELSE <<"">>

addTeacher(subject, isLab) ==
    /\ subject \in ShownSubjects(isLab)
    /\ Len(TeacherRows(subject, isLab)) < MaxTeachers
    /\ SetTeacherList(subject, isLab, Added(TeacherMap(isLab), subject))

removeTeacher(subject, teacherIndex, isLab) ==
    /\ subject \in ShownSubjects(isLab)
    /\ subject \in DOMAIN TeacherMap(isLab)
    /\ teacherIndex \in 1..Len(TeacherMap(isLab)[subject])
    /\ SetTeacherList(subject, isLab,
                      RemoveAt(TeacherMap(isLab)[subject], teacherIndex))

InitForm ==
    /\ classes = <<NewClass>>
    /\ teachers = <<>>
    /\ lab_teachers = <<>>
    /\ lab_rooms = <<>>
    /\ labs = <<>>
    /\ fresh = {}
    /\ syncPending = TRUE
    /\ lecture_requirements = <<>>

InitGen ==
    /\ timetables = <<>>
    /\ currentTimetable = 0
    /\ loading = FALSE
    /\ error = "null"
    /\ generationCount = 3
    /\ batches = <<>>
    /\ resets = <<>>
    /\ resetCount = 0

\* null, and what stands where JavaScript has null or undefined
Null == [null |-> TRUE]

\* TimetableApp after construction, in a browser that stores nothing
InitApp ==
    /\ inputData = Null
    /\ currentStep = "input"
    /\ isValidInput = FALSE
    /\ stored = Null
    /\ loadPending = TRUE
    /\ savePending = FALSE
    /\ reader = Null
    /\ alertMessage = ""

\* TimetableDisplay before it is handed a timetable: it renders nothing
InitRender ==
    /\ props = Null
    /\ cell = Null

Init == InitForm /\ InitGen /\ InitApp /\ InitRender

NextSync ==
    \/ Sync
    \/ addClass
    \/ \E index \in 1..MaxClasses : removeClass(index)
    \/ \E classIndex \in 1..MaxClasses, isLab \in BOOLEAN :
          addSubjectToClass(classIndex, isLab)
    \/ \E classIndex \in 1..MaxClasses, subjectIndex \in 1..MaxSubjects,
          value \in SubjectNames, isLab \in BOOLEAN :
          updateClassSubject(classIndex, subjectIndex, value, isLab)
    \/ \E classIndex \in 1..MaxClasses, subjectIndex \in 1..MaxSubjects,
          isLab \in BOOLEAN :
          removeSubjectFromClass(classIndex, subjectIndex, isLab)
    \/ \E subject \in SubjectNames, teacherIndex \in 1..MaxTeachers,
          value \in TeacherNames, isLab \in BOOLEAN :
          updateTeacher(subject, teacherIndex, value, isLab)
    \/ addRoom
    \/ \E index \in 1..MaxLabs, value \in RoomNames : updateRoom(index, value)
    \/ \E index \in 1..MaxLabs : removeRoom(index)
    \/ \E labSubject \in SubjectNames, labRoom \in RoomNames :
          toggleLabRoomAssignment(labSubject, labRoom)

SpecSync == Init /\ [][NextSync]_vars

(***************************************************************************)
(* The class and subject edits alone, on a form that holds values          *)
(***************************************************************************)
\* A form the user has filled in: one class with the theory subject Math and
\* the lab subject Physics, a teacher for each, and a lab room assigned.
StartClasses == <<[subjects |-> <<"Math">>, lab_subjects |-> <<"Physics">>]>>
StartTeachers == [s \in {"Math"} |-> <<"Dr.X">>]
StartLabTeachers == [s \in {"Physics"} |-> <<"Dr.X">>]
StartLabRooms == [s \in {"Physics"} |-> <<"Lab 1">>]

InitOrder ==
    /\ classes = StartClasses
    /\ teachers = StartTeachers
    /\ lab_teachers = StartLabTeachers
    /\ lab_rooms = StartLabRooms
    /\ labs = <<"Lab 1">>
    /\ fresh = {}
    /\ syncPending = FALSE
    /\ lecture_requirements = <<>>
    /\ InitGen /\ InitApp /\ InitRender

NextOrder ==
    \/ Sync
    \/ addClass
    \/ \E index \in 1..MaxClasses : removeClass(index)
    \/ \E classIndex \in 1..MaxClasses, isLab \in BOOLEAN :
          addSubjectToClass(classIndex, isLab)
    \/ \E classIndex \in 1..MaxClasses, subjectIndex \in 1..MaxSubjects,
          value \in SubjectNames, isLab \in BOOLEAN :
          updateClassSubject(classIndex, subjectIndex, value, isLab)
    \/ \E classIndex \in 1..MaxClasses, subjectIndex \in 1..MaxSubjects,
          isLab \in BOOLEAN :
          removeSubjectFromClass(classIndex, subjectIndex, isLab)

SpecOrder == InitOrder /\ [][NextOrder]_vars

(***************************************************************************)
(* The value edits: teacher rows, lab list and lab room assignments, on a  *)
(* form that holds values, with the renaming of the lab subject            *)
(***************************************************************************)
\* A form the user has filled in: one class with the theory subjects Math and
\* Physics and the lab subject Physics, a teacher for each, two lab rows of
\* which one is named, and that lab room assigned.
ValueClasses ==
    <<[subjects |-> <<"Math", "Physics">>, lab_subjects |-> <<"Physics">>]>>
ValueTeachers == [s \in {"Math", "Physics"} |-> <<"Dr.X">>]

InitValue ==
    /\ classes = ValueClasses
    /\ teachers = ValueTeachers
    /\ lab_teachers = StartLabTeachers
    /\ lab_rooms = StartLabRooms
    /\ labs = <<"Lab 1", "">>
    /\ fresh = {}
    /\ syncPending = FALSE
    /\ lecture_requirements = <<>>
    /\ InitGen /\ InitApp /\ InitRender

NextValue ==
    \/ Sync
    \/ \E classIndex \in 1..MaxClasses, subjectIndex \in 1..MaxSubjects,
          value \in SubjectNames :
          updateClassSubject(classIndex, subjectIndex, value, TRUE)
    \/ \E subject \in SubjectNames, isLab \in BOOLEAN : addTeacher(subject, isLab)
    \/ \E subject \in SubjectNames, teacherIndex \in 1..MaxTeachers,
          value \in TeacherNames, isLab \in BOOLEAN :
          updateTeacher(subject, teacherIndex, value, isLab)
    \/ \E subject \in SubjectNames, teacherIndex \in 1..MaxTeachers,
          isLab \in BOOLEAN :
          removeTeacher(subject, teacherIndex, isLab)
    \/ addRoom
    \/ \E index \in 1..Len(labs), value \in RoomNames : updateRoom(index, value)
    \/ \E index \in 1..Len(labs) : removeRoom(index)
    \/ \E labSubject \in SubjectNames, labRoom \in RoomNames :
          toggleLabRoomAssignment(labSubject, labRoom)
    \/ \E labSubject \in SubjectNames : selectAllLabRooms(labSubject)
    \/ \E labSubject \in SubjectNames : clearAllLabRooms(labSubject)

SpecValue == InitValue /\ [][NextValue]_vars

(***************************************************************************)
(* The weekly lecture requirement inputs                                   *)
(***************************************************************************)
\* What the number input yields: parseInt(e.target.value) || 0
LectureCounts == {0, 3}

\* onChange of the input rendered for each of
\* [...getAllSubjects(), ...getAllLabSubjects()]
setLectureRequirement(subject, value) ==
    /\ ~syncPending
    /\ subject \in getAllSubjects(classes) \cup getAllLabSubjects(classes)
    /\ lecture_requirements' =
          [s \in DOMAIN lecture_requirements \cup {subject} |->
              IF s = subject THEN value ELSE lecture_requirements[s]]
    /\ fresh' = {}
    /\ UNCHANGED <<classes, teachers, lab_teachers, lab_rooms, labs, syncPending,
                   outsideForm>>

NextLecture ==
    \/ Sync
    \/ \E classIndex \in 1..MaxClasses, isLab \in BOOLEAN :
          addSubjectToClass(classIndex, isLab)
    \/ \E classIndex \in 1..MaxClasses, subjectIndex \in 1..MaxSubjects,
          value \in SubjectNames, isLab \in BOOLEAN :
          updateClassSubject(classIndex, subjectIndex, value, isLab)
    \/ \E classIndex \in 1..MaxClasses, subjectIndex \in 1..MaxSubjects,
          isLab \in BOOLEAN :
          removeSubjectFromClass(classIndex, subjectIndex, isLab)
    \/ \E subject \in SubjectNames, value \in LectureCounts :
          setLectureRequirement(subject, value)

SpecLecture == Init /\ [][NextLecture]_vars

(***************************************************************************)
(* The Solver, as far as the front end sees it                             *)
(***************************************************************************)
\* A schedule entry; an entry the Solver has not annotated has no moved and no
\* moved_from field (FALSE and "" here).
Entry(slot, moved, moved_from) ==
    [section |-> "CS-A", day |-> "Monday", slot |-> slot, subject |-> "Math",
     teacher |-> "Dr.X", moved |-> moved, moved_from |-> moved_from]

\* The body of a successful /generate_timetable response
GenerateAnswers ==
    {[timetable |-> <<Entry("9:00-9:55", FALSE, "")>>,
      statistics |-> "statistics", unfulfilled |-> "unfulfilled"]}

\* The timetable of a successful /reset_teacher response: the entry at another
\* slot, annotated by the Solver or not
ResetAnswers ==
    {<<Entry("9:55-10:50", FALSE, "")>>,
     <<Entry("9:55-10:50", TRUE, "9:00-9:55")>>}

\* The two failures of a request: a response that is not ok, and a 200 response
\* whose body has an error field
FailureKinds == {"status", "error field"}

\* The message of the Error that generateTimetable and resetTeacher throw
FailureMessage(kind) ==
    IF kind = "status" THEN "HTTP 500: INTERNAL SERVER ERROR" ELSE "solver error"

(***************************************************************************)
(* TimetableAPI.generateMultipleTimetables: one record per call.  i is the *)
(* loop index; the call waits for the response to request i or for the     *)
(* 100 ms timer that follows a success.                                    *)
(***************************************************************************)
\* The options of the generation-count select that are chosen: 2 and 3
\* variations (the select also offers 4 and 5)
GenerationCounts == {2, 3}

\* The variant takes the number of variants produced so far
VariantByPosition(b, data) ==
    [id |-> Len(b.results) + 1,
     name |-> "Version " \o ToString(Len(b.results) + 1),
     data |-> data,
     generated_at |-> b.i + 1]

\* results.push({id: i + 1, name: `Version ${i + 1}`, data, generated_at});
\* generated_at is the time of the push, here the number of the request
Variant(b, data) ==
    [id |-> b.i + 1,
     name |-> "Version " \o ToString(b.i + 1),
     data |-> data,
     generated_at |-> b.i + 1]

\* Only the response that is not ok leaves its message
ErrorRecordOfStatus(b, kind) ==
    [variation |-> b.i + 1,
     error |-> IF kind = "status" THEN FailureMessage(kind) ELSE "undefined"]

\* errors.push({variation: i + 1, error: error.message})
ErrorRecord(b, kind) == [variation |-> b.i + 1, error |-> FailureMessage(kind)]

\* Values of Math.random() * 1000
Seeds == {0, 500}

\* The tag is the number of the batch alone
ModifiedUntagged(config, seed, i) ==
    [f \in (DOMAIN config) \cup {"_generation_seed", "_variation"} |->
        IF f = "_generation_seed" THEN seed
        ELSE IF f = "_variation" THEN 1
        ELSE config[f]]

\* modifiedInputData = {...inputData, _generation_seed, _variation: i + 1},
\* the body of request i
Modified(config, seed, i) ==
    [f \in (DOMAIN config) \cup {"_generation_seed", "_variation"} |->
        IF f = "_generation_seed" THEN seed
        ELSE IF f = "_variation" THEN i + 1
        ELSE config[f]]

\* The call generateMultipleTimetables(config, count) as it sends request 0:
\* request is the body of the request that is in flight, Null during the
\* 100 ms wait between two requests; sent lists the _variation of every
\* request the call has sent
NewBatch(config, count, seed) ==
    [inputData |-> config, count |-> count, i |-> 0, results |-> <<>>,
     errors |-> <<>>, waiting |-> "response",
     request |-> Modified(config, seed, 0),
     sent |-> <<Modified(config, seed, 0)._variation>>]

\* The loop moves to request i and does not send it
SendNothing(b, i, seed) == [b EXCEPT !.i = i, !.waiting = "nothing"]

\* The loop sends request i
Send(b, i, seed) ==
    [b EXCEPT !.i = i, !.waiting = "response",
              !.request = Modified(b.inputData, seed, i),
              !.sent = Append(@, Modified(b.inputData, seed, i)._variation)]

(***************************************************************************)
(* MultipleTimetableGenerator                                              *)
(***************************************************************************)
\* onChange of the generation-count select (disabled while loading)
setGenerationCount(n) ==
    /\ ~loading
    /\ n \in GenerationCounts
    /\ generationCount' = n
    /\ UNCHANGED <<timetables, currentTimetable, loading, error, batches, resets,
                   resetCount, outsideGen>>

\* onClick of a tab
setCurrentTimetable(index) ==
    /\ index \in 0..(Len(timetables) - 1)
    /\ currentTimetable' = index
    /\ UNCHANGED <<timetables, loading, error, generationCount, batches, resets,
                   resetCount, outsideGen>>

\* generateMultipleTimetables up to the first await: the button is disabled
\* while loading or without inputData; the API call sends request 0
generateClick ==
    /\ ~loading
    /\ inputData # Null
    /\ loading' = TRUE
    /\ error' = "null"
    /\ timetables' = <<>>
    /\ \E seed \in Seeds :
          batches' = Append(batches, NewBatch(inputData, generationCount, seed))
    /\ UNCHANGED <<currentTimetable, generationCount, resets, resetCount, outsideGen>>

\* if (results.length === 0) throw new Error('No timetables could be generated')
BatchFailed(results, errors) == Len(results) = 0

\* generateMultipleTimetables after the await: the API has returned
\* {results, errors} for the call at position k
generateReturn(k, results, errors) ==
    /\ IF BatchFailed(results, errors)
         THEN /\ error' = "No timetables could be generated"
              /\ UNCHANGED <<timetables, currentTimetable>>
         ELSE /\ timetables' = results
              /\ currentTimetable' = 0
              /\ UNCHANGED error
    /\ loading' = FALSE
    /\ batches' = RemoveAt(batches, k)
    /\ UNCHANGED <<generationCount, resets, resetCount, outsideGen>>

\* The response to request i is a success: the variant is pushed, then the
\* loop waits 100 ms unless this was the last request
generateResponseOk(k, data) ==
    /\ k \in 1..Len(batches)
    /\ batches[k].waiting = "response"
    /\ LET b == batches[k]
           results == Append(b.results, Variant(b, data))
       IN  IF b.i < b.count - 1
             THEN /\ batches' = [batches EXCEPT ![k].results = results,
                                                ![k].waiting = "timer",
                                                ![k].request = Null]
                  /\ UNCHANGED <<timetables, currentTimetable, loading, error,
                                 generationCount, resets, resetCount, outsideGen>>
             ELSE generateReturn(k, results, b.errors)

\* The 100 ms timer has fired: the loop sends the next request
generateTimer(k) ==
    /\ k \in 1..Len(batches)
    /\ batches[k].waiting = "timer"
    /\ \E seed \in Seeds :
          batches' = [batches EXCEPT ![k] = Send(@, @.i + 1, seed)]
    /\ UNCHANGED <<timetables, currentTimetable, loading, error, generationCount,
                   resets, resetCount, outsideGen>>

\* The first failure ends the loop
AfterFailureStop(b) == b.count

\* The loop index after a failed request: the catch is inside the loop
AfterFailure(b) == b.i + 1

\* The response to request i is a failure: the error is pushed and the loop
\* goes on with the next request at once
generateResponseFail(k, kind) ==
    /\ k \in 1..Len(batches)
    /\ batches[k].waiting = "response"
    /\ LET b == batches[k]
           errors == Append(b.errors, ErrorRecord(b, kind))
       IN  IF AfterFailure(b) < b.count
             THEN /\ \E seed \in Seeds :
                     batches' = [batches EXCEPT
                        ![k] = Send([@ EXCEPT !.errors = errors],
                                    AfterFailure(b), seed)]
                  /\ UNCHANGED <<timetables, currentTimetable, loading, error,
                                 generationCount, resets, resetCount, outsideGen>>
             ELSE generateReturn(k, b.results, errors)

\* The entries shown for the selected tab: timetables[currentTimetable]?.data
ShownEntries ==
    IF currentTimetable + 1 \in 1..Len(timetables)
    THEN timetables[currentTimetable + 1].data.timetable
    ELSE <<>>

\* handleResetTeacher up to the await, called by a click on the teacher of a
\* shown entry: the request and the timetables and currentTimetable of the
\* render the handler belongs to
resetClick(teacher, day, slot) ==
    /\ resetCount < MaxResets
    /\ Len(timetables) # 0
    /\ currentTimetable + 1 \in 1..Len(timetables)
    /\ \E e \in Range(ShownEntries) :
          e.teacher = teacher /\ e.day = day /\ e.slot = slot
    /\ loading' = TRUE
    /\ resets' = Append(resets,
          [timetables |-> timetables, currentTimetable |-> currentTimetable,
           request |-> [teacher |-> teacher, day |-> day, slot |-> slot,
                        timetable |-> ShownEntries]])
    /\ resetCount' = resetCount + 1
    /\ UNCHANGED <<timetables, currentTimetable, error, generationCount, batches,
                   outsideGen>>

\* The new entries are appended to the entries of the variant
ResetMerged(op, timetable) ==
    [op.timetables EXCEPT
        ![op.currentTimetable + 1].data.timetable = @ \o timetable,
        ![op.currentTimetable + 1].name = @ \o " (Modified)"]

\* updatedTimetables: the timetables of the handler's render with the selected
\* variant's entries replaced and its name extended
ResetUpdated(op, timetable) ==
    [op.timetables EXCEPT
        ![op.currentTimetable + 1].data.timetable = timetable,
        ![op.currentTimetable + 1].name = @ \o " (Modified)"]

\* handleResetTeacher after the await, the request succeeded
resetResponseOk(k, timetable) ==
    /\ k \in 1..Len(resets)
    /\ timetables' = ResetUpdated(resets[k], timetable)
    /\ loading' = FALSE
    /\ resets' = RemoveAt(resets, k)
    /\ UNCHANGED <<currentTimetable, error, generationCount, batches, resetCount,
                   outsideGen>>

\* The failed reset drops the variant it was sent for
ResetFailedDrop(op) == RemoveAt(op.timetables, op.currentTimetable + 1)

\* The timetables after a failed reset: setTimetables is not called
ResetFailed(op) == timetables

\* handleResetTeacher after the await, the request failed
resetResponseFail(k, kind) ==
    /\ k \in 1..Len(resets)
    /\ timetables' = ResetFailed(resets[k])
    /\ error' = "Failed to reset teacher: " \o FailureMessage(kind)
    /\ loading' = FALSE
    /\ resets' = RemoveAt(resets, k)
    /\ UNCHANGED <<currentTimetable, generationCount, batches, resetCount, outsideGen>>

NextGen ==
    \/ \E n \in GenerationCounts : setGenerationCount(n)
    \/ \E index \in 0..(Len(timetables) - 1) : setCurrentTimetable(index)
    \/ generateClick
    \/ \E k \in 1..Len(batches), data \in GenerateAnswers : generateResponseOk(k, data)
    \/ \E k \in 1..Len(batches) : generateTimer(k)
    \/ \E k \in 1..Len(batches), kind \in FailureKinds : generateResponseFail(k, kind)
    \/ \E e \in Range(ShownEntries) : resetClick(e.teacher, e.day, e.slot)
    \/ \E k \in 1..Len(resets), timetable \in ResetAnswers :
          resetResponseOk(k, timetable)
    \/ \E k \in 1..Len(resets), kind \in FailureKinds : resetResponseFail(k, kind)


(***************************************************************************)
(* TimetableDisplay: renderCell                                            *)
(***************************************************************************)
\* Entries a timetable is drawn from: at most MaxEntries of them
MaxEntries == 2

RenderSlots == <<"9:00-9:55", "Lunch Break">>
RenderSubjects == {"Math", "Physics", "Workshop"}

\* An entry of timetableData.timetable for the section "CS - A"
RenderEntry(slot, subject, moved) ==
    [section |-> "CS - A", day |-> "Monday", slot |-> slot, subject |-> subject,
     teacher |-> "Dr.X", moved |-> moved,
     moved_from |-> IF moved THEN "9:55-10:50" ELSE ""]

RenderEntries ==
    {RenderEntry(slot, subject, moved) :
        slot \in Range(RenderSlots), subject \in RenderSubjects,
        moved \in {FALSE}}
    \cup {RenderEntry("9:00-9:55", "Math", TRUE)}

\* A class of inputData.classes as the display reads it
DisplayClass(name, lab_subjects) ==
    [name |-> name, sections |-> <<[name |-> "A"]>>, lab_subjects |-> lab_subjects]

LabSubjectLists == {<<>>, <<"Physics">>, <<"Workshop">>}

\* The props: a timetable and the configuration it was generated from. The
\* class of the section is CS, or the only class is another one.
RenderProps ==
    {[timetable |-> t,
      classes |-> <<DisplayClass(name, l)>>,
      days |-> <<"Monday">>,
      slots |-> RenderSlots] :
        t \in UNION {[1..k -> RenderEntries] : k \in 0..MaxEntries},
        name \in {"CS", "EE"},
        l \in LabSubjectLists}

\* groupedData[section]?.[day]?.[slot] || []
SlotItems(p, section, day, slot) ==
    SelectSeq(p.timetable,
              LAMBDA item : item.section = section /\ item.day = day
                            /\ item.slot = slot)

\* Object.keys(groupedData)
Sections(p) == {p.timetable[i].section : i \in 1..Len(p.timetable)}

\* section.name ? `${classInfo.name} - ${section.name}` : classInfo.name
FullSectionNames(classInfo) ==
    {IF classInfo.sections[i].name # ""
       THEN classInfo.name \o " - " \o classInfo.sections[i].name
       ELSE classInfo.name : i \in 1..Len(classInfo.sections)}

\* The lab_subjects of the first class that has the section, or []
getSectionLabSubjects(p, sectionName) ==
    LET has == {i \in 1..Len(p.classes) :
                   sectionName \in FullSectionNames(p.classes[i])}
    IN  IF has = {} THEN <<>>
        ELSE p.classes[CHOOSE i \in has : \A j \in has : i <= j].lab_subjects

Cell(className, text, labEntries, theoryEntries, workshopEntries) ==
    [className |-> className, text |-> text, labs |-> labEntries,
     nonLabs |-> theoryEntries, workshops |-> workshopEntries]

LunchCell == Cell("lunch-cell", "LUNCH", <<>>, <<>>, <<>>)
EmptyCell == Cell("empty-cell", "-", <<>>, <<>>, <<>>)

\* The cell with the three lists of entries
EntryCell(slotItems, sectionLabSubjects) ==
    LET isLab(item) == item.subject \in Range(sectionLabSubjects)
        isMovedSlot == \E i \in 1..Len(slotItems) : slotItems[i].moved
    IN  Cell("timetable-cell " \o (IF isMovedSlot THEN "moved-slot" ELSE ""),
             "",
             SelectSeq(slotItems, isLab),
             SelectSeq(slotItems,
                       LAMBDA item : ~isLab(item) /\ item.subject # "Workshop"),
             SelectSeq(slotItems, LAMBDA item : item.subject = "Workshop"))

\* The empty test comes first, the lunch test second
RenderCellEmptyFirst(p, section, day, slot) ==
    LET slotItems == SlotItems(p, section, day, slot)
    IN  IF Len(slotItems) = 0 THEN EmptyCell
        ELSE IF slot = "Lunch Break" THEN LunchCell
        ELSE EntryCell(slotItems, getSectionLabSubjects(p, section))

\* What renderCell(section, day, slot) returns
RenderCell(p, section, day, slot) ==
    LET slotItems == SlotItems(p, section, day, slot)
    IN  IF slot = "Lunch Break" THEN LunchCell
        ELSE IF Len(slotItems) = 0 THEN EmptyCell
        ELSE EntryCell(slotItems, getSectionLabSubjects(p, section))

\* One call of renderCell while the table of a section is rendered
renderCell(section, day, slot) ==
    /\ props # Null
    /\ section \in Sections(props)
    /\ day \in Range(props.days)
    /\ slot \in Range(props.slots)
    /\ cell' = [section |-> section, day |-> day, slot |-> slot,
                td |-> RenderCell(props, section, day, slot)]
    /\ UNCHANGED <<props, outsideRender>>

InitRenderProps ==
    /\ props \in RenderProps
    /\ cell = Null
    /\ InitForm /\ InitGen /\ InitApp

NextRender ==
    \E section \in {"CS - A"}, day \in {"Monday"}, slot \in Range(RenderSlots) :
        renderCell(section, day, slot)

SpecRender == InitRenderProps /\ [][NextRender]_vars

(***************************************************************************)
(* TimetableApp                                                            *)
(***************************************************************************)
\* The configuration TimetableInputForm starts with, as a JSON value. An
\* object with no key and an array with no element are both <<>>.
InitialConfig ==
    [classes |-> <<[name |-> "", subjects |-> <<>>, lab_subjects |-> <<>>,
                    sections |-> <<[name |-> "", student_count |-> 0]>>]>>,
     rooms |-> <<>>,
     labs |-> <<>>,
     lab_rooms |-> <<>>,
     days |-> <<"Monday", "Tuesday", "Wednesday", "Thursday", "Friday">>,
     slots |-> <<"9:00-9:55", "9:55-10:50", "10:50-11:45", "11:45-12:40",
                 "Lunch Break", "2:00-2:55", "2:55-3:50", "3:50-4:45">>,
     teachers |-> <<>>,
     lab_teachers |-> <<>>,
     teacher_unavailability |-> <<>>,
     lecture_requirements |-> <<>>,
     lab_capacity |-> 30,
     constraints |-> [max_lectures_per_day_teacher |-> 5,
                      max_lectures_per_subject_per_day |-> 2,
                      min_lectures_per_day_section |-> 4,
                      max_lectures_per_day_section |-> 6,
                      lab_session_duration |-> 2,
                      distribute_across_week |-> TRUE]]

\* The configuration the form holds and shows. The model of the form keeps
\* the subjects of a class and leaves its name and sections as they start.
FormConfig ==
    [InitialConfig EXCEPT
        !.classes = [i \in 1..Len(classes) |->
                        [InitialConfig.classes[1] EXCEPT
                            !.subjects = classes[i].subjects,
                            !.lab_subjects = classes[i].lab_subjects]],
        !.labs = labs,
        !.lab_rooms = lab_rooms,
        !.teachers = teachers,
        !.lab_teachers = lab_teachers,
        !.lecture_requirements = lecture_requirements]

\* JSON documents a file or the store can hold: a complete configuration, one
\* that lacks days and constraints, one whose list of classes holds null,
\* and the document null.
DocValid ==
    [InitialConfig EXCEPT
        !.classes = <<[name |-> "CS", subjects |-> <<"Math">>,
                       lab_subjects |-> <<>>,
                       sections |-> <<[name |-> "A", student_count |-> 30]>>]>>]
DocNoDays ==
    [f \in (DOMAIN DocValid) \ {"days", "constraints"} |-> DocValid[f]]
DocNullClass == [DocValid EXCEPT !.classes = <<Null>>]
Documents == {DocValid, DocNoDays, DocNullClass, Null}

\* JSON.stringify(value): the text without white space
Stringify(value) == [json |-> value, space |-> 0]

\* JSON.stringify(value, null, 2): the text of an exported file
StringifyIndented(value) == [json |-> value, space |-> 2]

\* A text that is not JSON
MalformedText == [malformed |-> "{"]

WellFormed(text) == "json" \in DOMAIN text

\* JSON.parse(text) of a well-formed text
Parse(text) == text.json

\* What a chosen file can hold, and what the browser can hold under
\* 'timetable_input_data' when the app starts
FileTexts ==
    {Stringify(d) : d \in Documents} \cup {StringifyIndented(DocValid), MalformedText}
StoredItems == {Null, Stringify(DocValid), MalformedText}

\* value?.field is there
Has(value, field) == value # Null /\ field \in DOMAIN value

\* cls.name && cls.sections?.length > 0 &&
\*   (cls.subjects?.length > 0 || cls.lab_subjects?.length > 0)
ValidClass(cls) ==
    /\ cls.name # ""
    /\ Len(cls.sections) > 0
    /\ (Len(cls.subjects) > 0 \/ Len(cls.lab_subjects) > 0)

\* every() reaches an element that is null before one that fails the test:
\* reading cls.name throws a TypeError
ValidationThrows(newInputData) ==
    /\ Has(newInputData, "classes")
    /\ \E i \in 1..Len(newInputData.classes) :
          /\ newInputData.classes[i] = Null
          /\ \A j \in 1..(i - 1) : ValidClass(newInputData.classes[j])

\* hasClasses && hasValidClasses && hasDaysAndSlots, as a truth value
Validation(newInputData) ==
    /\ Has(newInputData, "classes")
    /\ Len(newInputData.classes) > 0
    /\ \A i \in 1..Len(newInputData.classes) : ValidClass(newInputData.classes[i])
    /\ Has(newInputData, "days")
    /\ Len(newInputData.days) > 0
    /\ Has(newInputData, "slots")
    /\ Len(newInputData.slots) > 0

\* setInputData(newInputData), then the validation; when the validation
\* throws, setIsValidInput is not reached. The auto-save effect is scheduled
\* when inputData changes, and a parsed document is always a new value.
handleInputDataChange(newInputData) ==
    /\ inputData' = newInputData
    /\ savePending' = (newInputData # Null \/ inputData # Null)
    /\ isValidInput' = IF ValidationThrows(newInputData) THEN isValidInput
                       ELSE Validation(newInputData)

\* No effect is scheduled: React runs the scheduled effects before it
\* handles the next event
Settled == ~syncPending /\ ~loadPending /\ ~savePending

\* TimetableInputForm is rendered for the step 'input' only and
\* MultipleTimetableGenerator for the step 'generate' only: a component is
\* mounted with its initial state when its step begins and unmounted, its
\* state lost, when its step ends. What an outstanding call of an unmounted
\* generator sets is the state of a component that is gone: the call is left
\* out from then on.
SetStep(step) ==
    /\ currentStep' = step
    /\ IF step = currentStep
         THEN UNCHANGED <<formVars, genVars>>
         ELSE /\ classes' = <<NewClass>>
              /\ teachers' = <<>>
              /\ lab_teachers' = <<>>
              /\ lab_rooms' = <<>>
              /\ labs' = <<>>
              /\ fresh' = {}
              /\ lecture_requirements' = <<>>
              /\ syncPending' = (step = "input")
              /\ timetables' = <<>>
              /\ currentTimetable' = 0
              /\ loading' = FALSE
              /\ error' = "null"
              /\ generationCount' = 3
              /\ batches' = <<>>
              /\ resets' = <<>>
              /\ resetCount' = 0

\* useEffect(() => {...}, []): load from localStorage on mount
loadSaved ==
    /\ loadPending
    /\ ~syncPending
    /\ loadPending' = FALSE
    /\ IF stored # Null /\ WellFormed(stored)
         THEN handleInputDataChange(Parse(stored))
         ELSE UNCHANGED <<inputData, savePending, isValidInput>>
    /\ UNCHANGED <<currentStep, stored, reader, alertMessage, outsideApp>>

\* useEffect(() => {...}, [inputData]): auto-save
autoSave ==
    /\ savePending
    /\ ~loadPending
    /\ savePending' = FALSE
    /\ stored' = IF inputData # Null THEN Stringify(inputData) ELSE stored
    /\ UNCHANGED <<inputData, currentStep, isValidInput, loadPending, reader,
                   alertMessage, outsideApp>>

goToGeneration ==
    /\ Settled
    /\ currentStep = "input"
    /\ isValidInput
    /\ SetStep("generate")
    /\ UNCHANGED <<inputData, isValidInput, stored, loadPending, savePending,
                   reader, alertMessage, renderVars>>

goToInput ==
    /\ Settled
    /\ currentStep = "generate"
    /\ SetStep("input")
    /\ UNCHANGED <<inputData, isValidInput, stored, loadPending, savePending,
                   reader, alertMessage, renderVars>>

\* onClick of Clear All
clearAll ==
    /\ Settled
    /\ stored' = Null
    /\ inputData' = Null
    /\ savePending' = (inputData # Null)
    /\ SetStep("input")
    /\ isValidInput' = FALSE
    /\ UNCHANGED <<loadPending, reader, alertMessage, renderVars>>

\* A FileReader is reading a file
Reading == IF reader = Null THEN FALSE ELSE reader.readyState = "LOADING"

\* onChange of the file input: reader.readAsText(file)
importFile(text) ==
    /\ Settled
    /\ ~Reading
    /\ reader' = [readyState |-> "LOADING", result |-> text]
    /\ UNCHANGED <<inputData, currentStep, isValidInput, stored, loadPending,
                   savePending, alertMessage, outsideApp>>

ImportError == "Failed to import configuration: Invalid JSON file"

\* The configuration is dropped when the file cannot be read
ImportRejectedClears ==
    /\ alertMessage' = ImportError
    /\ inputData' = Null
    /\ isValidInput' = FALSE
    /\ savePending' = (inputData # Null)
    /\ UNCHANGED <<currentStep, stored, loadPending, outsideApp>>

\* JSON.parse throws: the catch block
ImportRejected ==
    /\ alertMessage' = ImportError
    /\ UNCHANGED <<inputData, currentStep, isValidInput, stored, loadPending,
                   savePending, outsideApp>>

\* JSON.parse returns: the try block. The state updates made before an
\* exception are kept; setCurrentStep is not reached after one.
ImportParsed(importedData) ==
    /\ handleInputDataChange(importedData)
    /\ IF ValidationThrows(importedData)
         THEN /\ alertMessage' = ImportError
              /\ UNCHANGED <<currentStep, formVars, genVars>>
         ELSE /\ SetStep("input")
              /\ UNCHANGED alertMessage
    /\ UNCHANGED <<stored, loadPending, renderVars>>

\* reader.onload
importLoaded ==
    /\ Settled
    /\ Reading
    /\ reader' = [reader EXCEPT !.readyState = "DONE"]
    /\ IF WellFormed(reader.result)
         THEN ImportParsed(Parse(reader.result))
         ELSE ImportRejected

\* The form is on the page and no effect of the app is scheduled
FormShown == currentStep = "input" /\ ~loadPending /\ ~savePending

InitStored ==
    /\ inputData = Null
    /\ currentStep = "input"
    /\ isValidInput = FALSE
    /\ stored \in StoredItems
    /\ loadPending = TRUE
    /\ savePending = FALSE
    /\ reader = Null
    /\ alertMessage = ""
    /\ InitForm /\ InitGen /\ InitRender

NextApp ==
    \/ loadSaved
    \/ autoSave
    \/ goToGeneration
    \/ goToInput
    \/ clearAll
    \/ \E text \in FileTexts : importFile(text)
    \/ importLoaded
    \/ Sync
    \/ FormShown /\ addClass
    \/ FormShown /\ \E index \in 1..MaxClasses : removeClass(index)

SpecApp == InitStored /\ [][NextApp]_vars

(***************************************************************************)
(* The generator on the page                                               *)
(***************************************************************************)
\* The app after it has loaded a complete configuration from the store and
\* the user has proceeded to the step 'generate': MultipleTimetableGenerator
\* has just been mounted with that configuration, the form is unmounted
InitGenerate ==
    /\ inputData = DocValid
    /\ currentStep = "generate"
    /\ isValidInput = TRUE
    /\ stored = Stringify(DocValid)
    /\ loadPending = FALSE
    /\ savePending = FALSE
    /\ reader = Null
    /\ alertMessage = ""
    /\ classes = <<NewClass>>
    /\ teachers = <<>>
    /\ lab_teachers = <<>>
    /\ lab_rooms = <<>>
    /\ labs = <<>>
    /\ fresh = {}
    /\ syncPending = FALSE
    /\ lecture_requirements = <<>>
    /\ InitGen /\ InitRender

SpecGen == InitGenerate /\ [][NextGen]_vars

\* The generator and the navigation between the two steps
GeneratorShown == currentStep = "generate"

NextNav ==
    \/ GeneratorShown /\ NextGen
    \/ goToInput
    \/ goToGeneration
    \/ clearAll
    \/ Sync

SpecNav == InitGenerate /\ [][NextNav]_vars

(***************************************************************************)
(* Claims about the auto-sync (SpecSync)                                   *)
(***************************************************************************)
\* A name made of white space only
Blank(s) == s \in {"", " "}

\* The canonical sets: the names some class lists, without the blank ones
CanonicalTheory(cls) ==
    {s \in SubjectNames :
        ~Blank(s) /\ \E i \in 1..Len(cls) : \E j \in 1..Len(cls[i].subjects) :
                        cls[i].subjects[j] = s}
CanonicalLab(cls) ==
    {s \in SubjectNames :
        ~Blank(s) /\ \E i \in 1..Len(cls) : \E j \in 1..Len(cls[i].lab_subjects) :
                        cls[i].lab_subjects[j] = s}

\* C1: once the sync effect has run, the keys of teachers are exactly the
\* canonical theory subjects and the keys of lab_teachers and of lab_rooms are
\* exactly the canonical lab subjects: no orphan key and no missing key.
C1_KeysAreCanonical ==
    ~syncPending =>
        /\ DOMAIN teachers = CanonicalTheory(classes)
        /\ DOMAIN lab_teachers = CanonicalLab(classes)
        /\ DOMAIN lab_rooms = CanonicalLab(classes)

\* A settled state with a key, a blank subject left out and a duplicate-free set
C1_Witness ==
    /\ ~syncPending
    /\ Len(classes) = 1
    /\ classes[1].subjects = <<"Math", " ">>
    /\ DOMAIN teachers = {"Math"}

\* C2: a subject that is canonical before and after a class/subject edit keeps
\* its teacher list, its lab teacher list and its lab room list when the sync
\* runs: the value is neither changed nor replaced by a new array.
C2_SurvivorsKept ==
    [][(syncPending /\ ~syncPending') =>
        /\ \A s \in (DOMAIN teachers) \cap CanonicalTheory(classes') :
              /\ s \in DOMAIN teachers'
              /\ teachers'[s] = teachers[s]
              /\ <<"teachers", s>> \notin fresh'
        /\ \A s \in (DOMAIN lab_teachers) \cap CanonicalLab(classes') :
              /\ s \in DOMAIN lab_teachers'
              /\ lab_teachers'[s] = lab_teachers[s]
              /\ <<"lab_teachers", s>> \notin fresh'
        /\ \A s \in (DOMAIN lab_rooms) \cap CanonicalLab(classes') :
              /\ s \in DOMAIN lab_rooms'
              /\ lab_rooms'[s] = lab_rooms[s]
              /\ <<"lab_rooms", s>> \notin fresh']_vars

\* The sync has just added the lab subject Physics while Math, whose teacher
\* the user had entered, survived
C2_Witness ==
    /\ ~syncPending
    /\ fresh = {<<"lab_teachers", "Physics">>, <<"lab_rooms", "Physics">>}
    /\ "Math" \in DOMAIN teachers
    /\ teachers["Math"] = <<"Dr.X">>

\* C10: the sync is idempotent: run on its own result with the same classes it
\* returns the same keys and the same values and creates no new array.
C10_Idempotent ==
    LET once  == SyncResult(classes, teachers, lab_teachers, lab_rooms)
        twice == SyncResult(classes, once.teachers, once.lab_teachers,
                            once.lab_rooms)
    IN  /\ twice.teachers = once.teachers
        /\ twice.lab_teachers = once.lab_teachers
        /\ twice.lab_rooms = once.lab_rooms
        /\ twice.fresh = {}

\* The effect is about to run and its first run adds a key, removes a key and
\* keeps a key whose value the user had entered
C10_Witness ==
    /\ syncPending
    /\ DOMAIN teachers = {"Math"}
    /\ teachers["Math"] = <<"Dr.X">>
    /\ getAllSubjects(classes) = {"Math"}
    /\ DOMAIN lab_teachers = {"Math"}
    /\ getAllLabSubjects(classes) = {"Physics"}

(***************************************************************************)
(* Claims about the generator (SpecGen)                                    *)
(***************************************************************************)
VersionName(n) == "Version " \o ToString(n)

\* The ids of a list of variants increase
Increasing(list) ==
    \A p, q \in 1..Len(list) : p < q => list[p].id < list[q].id

\* The requests of a call that have been answered
Answered(b) == IF b.waiting = "timer" THEN b.i + 1 ELSE b.i

\* The variant list a step hands on for the call at position k: the results of
\* the call, or the timetables when the step ends the call
ResultsAfter(k) ==
    IF Len(batches') = Len(batches) THEN batches'[k].results ELSE timetables'

\* C3: the variant built from the i-th request a call submits has id i and
\* name 'Version i', the variants are in the order of submission, and when no
\* request has failed they are 'Version 1', 'Version 2', ... without a gap.
C3_NamedBySubmission ==
    [][\A k \in 1..Len(batches), data \in GenerateAnswers :
          generateResponseOk(k, data) =>
             LET b   == batches[k]
                 out == ResultsAfter(k)
             IN  /\ Len(out) = Len(b.results) + 1
                 /\ SubSeq(out, 1, Len(b.results)) = b.results
                 /\ out[Len(out)].id = b.i + 1
                 /\ out[Len(out)].name = VersionName(b.i + 1)
                 /\ out[Len(out)].data = data
                 /\ Increasing(out)
                 /\ b.errors = <<>> =>
                       /\ Len(out) = b.i + 1
                       /\ \A j \in 1..Len(out) : out[j].name = VersionName(j)]_vars

\* Request 2 of 3 failed: the variants shown are Version 1 and Version 3
C3_Witness ==
    /\ ~loading
    /\ Len(timetables) = 2
    /\ timetables[1].id = 1 /\ timetables[1].name = "Version 1"
    /\ timetables[2].id = 3 /\ timetables[2].name = "Version 3"

\* Every answered request of the call has one outcome: a variant or an error
\* record of its number
OneOutcomeEach(b) ==
    /\ Len(b.results) + Len(b.errors) = Answered(b)
    /\ {b.results[j].id : j \in 1..Len(b.results)}
          \cup {b.errors[j].variation : j \in 1..Len(b.errors)} = 1..Answered(b)

\* C4: a failed request does not abort the batch: the failed request i yields
\* one error record (variation i) and no variant, the next request is issued,
\* and when the call ends variants + error records = count.
C4_FailureIsolated ==
    /\ [](\A k \in 1..Len(batches) : OneOutcomeEach(batches[k]))
    /\ [][\A k \in 1..Len(batches) :
            LET b == batches[k]
            IN  /\ \A kind \in FailureKinds :
                      generateResponseFail(k, kind) =>
                         IF b.i + 1 < b.count
                           THEN /\ Len(batches') = Len(batches)
                                /\ batches'[k].i = b.i + 1
                                /\ batches'[k].waiting = "response"
                                /\ batches'[k].results = b.results
                                /\ batches'[k].errors =
                                      Append(b.errors,
                                             [variation |-> b.i + 1,
                                              error |-> FailureMessage(kind)])
                           ELSE /\ Len(batches') = Len(batches) - 1
                                /\ Len(b.results) + Len(b.errors) + 1 = b.count
                                /\ b.results # <<>> => timetables' = b.results
                /\ \A data \in GenerateAnswers :
                      (generateResponseOk(k, data) /\ Len(batches') < Len(batches))
                         => /\ Len(timetables') + Len(b.errors) = b.count
                            /\ b.i + 1 = b.count]_vars

\* Request 2 of 3 has failed and request 3 is outstanding
C4_Witness ==
    \E k \in 1..Len(batches) :
        /\ batches[k].count = 3
        /\ batches[k].i = 2
        /\ batches[k].waiting = "response"
        /\ Len(batches[k].results) = 1
        /\ batches[k].results[1].id = 1
        /\ Len(batches[k].errors) = 1
        /\ batches[k].errors[1].variation = 2

AggregateFailure == "No timetables could be generated"

\* The call at position k ends in this step with these results
EndsWith(k, results) ==
    \/ /\ batches[k].i + 1 = batches[k].count
       /\ \E data \in GenerateAnswers :
             /\ generateResponseOk(k, data)
             /\ results = Append(batches[k].results, Variant(batches[k], data))
    \/ /\ batches[k].i + 1 = batches[k].count
       /\ \E kind \in FailureKinds : generateResponseFail(k, kind)
       /\ results = batches[k].results

\* C5: when a generate batch completes, the aggregate failure message is set if
\* and only if it produced no variant; otherwise the variant list is the
\* successful variants, the selected index is 0 and no aggregate failure is
\* shown.
C5_AggregateIffNone ==
    [][\A k \in 1..Len(batches) :
          \A results \in {batches[k].results}
                         \cup {Append(batches[k].results, Variant(batches[k], data)) :
                                  data \in GenerateAnswers} :
             EndsWith(k, results) =>
                /\ (error' = AggregateFailure) <=> (results = <<>>)
                /\ results # <<>> =>
                      /\ timetables' = results
                      /\ currentTimetable' = 0]_vars

\* C6: at most one generate batch is outstanding at any time.
C6_OneBatch == Len(batches) <= 1

ResetFailureMessages ==
    {"Failed to reset teacher: HTTP 500: INTERNAL SERVER ERROR",
     "Failed to reset teacher: solver error"}

\* C7: when the Solver fails a reset request (a status that is not ok, or an
\* error field), the variant list stays as it was and the error message
\* 'Failed to reset teacher: ...' is set.
C7_FailedResetKeepsList ==
    [][\A k \in 1..Len(resets), kind \in FailureKinds :
          resetResponseFail(k, kind) =>
             /\ timetables' = timetables
             /\ error' \in ResetFailureMessages
             /\ kind = "status" => error' =
                   "Failed to reset teacher: HTTP 500: INTERNAL SERVER ERROR"
             /\ kind = "error field" => error' =
                   "Failed to reset teacher: solver error"]_vars

\* A reset has failed; the variant it was sent for is shown as generated
C7_Witness ==
    /\ error \in ResetFailureMessages
    /\ resets = <<>>
    /\ resetCount = 1
    /\ Len(timetables) = 3
    /\ timetables[1].name = "Version 1"
    /\ timetables[1].data.timetable = <<Entry("9:00-9:55", FALSE, "")>>

\* C8: a reset request carries the full entries of the selected variant and the
\* teacher, day and slot clicked; after a successful reset the entries of that
\* variant are exactly the list the Solver returned.
C8_ResetReplacesEntries ==
    [][/\ resetCount' # resetCount =>
             /\ Len(resets') = Len(resets) + 1
             /\ LET op == resets'[Len(resets')]
                    e  == timetables[currentTimetable + 1].data.timetable
                IN  /\ op.currentTimetable = currentTimetable
                    /\ op.request.timetable = e
                    /\ \E x \in Range(e) :
                          /\ op.request.teacher = x.teacher
                          /\ op.request.day = x.day
                          /\ op.request.slot = x.slot
       /\ \A k \in 1..Len(resets), timetable \in ResetAnswers :
             resetResponseOk(k, timetable) =>
                LET op == resets[k]
                IN  /\ Len(timetables') = Len(op.timetables)
                    /\ timetables'[op.currentTimetable + 1].id
                          = op.timetables[op.currentTimetable + 1].id
                    /\ timetables'[op.currentTimetable + 1].data.timetable
                          = timetable]_vars

\* The reset of Version 1 has succeeded: its entries are the Solver's list
C8_Witness ==
    /\ resets = <<>>
    /\ Len(timetables) >= 1
    /\ timetables[1].name = "Version 1 (Modified)"
    /\ timetables[1].data.timetable = <<Entry("9:55-10:50", FALSE, "")>>

\* The same lecture of the same teacher in two entry lists
SameLecture(e, f) ==
    /\ e.teacher = f.teacher
    /\ e.section = f.section
    /\ e.day = f.day
    /\ e.subject = f.subject

\* C9: after a successful reset every entry whose slot differs from the slot of
\* the teacher's prior entry carries moved = TRUE and moved_from = that slot.
C9_MovedAnnotated ==
    [][\A k \in 1..Len(resets), timetable \in ResetAnswers :
          resetResponseOk(k, timetable) =>
             LET op    == resets[k]
                 prior == op.request.timetable
                 now   == timetables'[op.currentTimetable + 1].data.timetable
             IN  \A e \in Range(prior), f \in Range(now) :
                    (SameLecture(e, f) /\ e.slot # f.slot) =>
                        /\ f.moved
                        /\ f.moved_from = e.slot]_vars

(***************************************************************************)
(* Claims about the order of the edits (SpecOrder)                         *)
(***************************************************************************)
\* The entry a subject is given when it enters a map
FreshOrStart(map, start, init) ==
    \A s \in DOMAIN map :
        \/ map[s] = init
        \/ s \in DOMAIN start /\ map[s] = start[s]

\* C11 as stated: the settled maps depend on the final canonical sets alone.
\* The empty sequence of edits ends with the canonical sets and the maps of
\* the start, so every sequence of class/subject edits that ends with the
\* canonical sets of the start must settle with the maps of the start.
C11_OrderIndependent ==
    (/\ ~syncPending
     /\ CanonicalTheory(classes) = CanonicalTheory(StartClasses)
     /\ CanonicalLab(classes) = CanonicalLab(StartClasses))
    => /\ teachers = StartTeachers
       /\ lab_teachers = StartLabTeachers
       /\ lab_rooms = StartLabRooms

\* C11, amended: after any sequence of class/subject edits the settled maps
\* have the keys of the final canonical sets, and every key holds either the
\* value it had at the start or the entry of a subject that has just entered
\* (one empty teacher slot, no lab room).
C11_KeysAndStartOrFresh ==
    ~syncPending =>
        /\ DOMAIN teachers = CanonicalTheory(classes)
        /\ DOMAIN lab_teachers = CanonicalLab(classes)
        /\ DOMAIN lab_rooms = CanonicalLab(classes)
        /\ FreshOrStart(teachers, StartTeachers, <<"">>)
        /\ FreshOrStart(lab_teachers, StartLabTeachers, <<"">>)
        /\ FreshOrStart(lab_rooms, StartLabRooms, <<>>)

\* Two sequences with the same final canonical sets and different maps: the
\* empty one, and one that took Physics out and put it back
C11_Witness ==
    /\ ~syncPending
    /\ CanonicalTheory(classes) = CanonicalTheory(StartClasses)
    /\ CanonicalLab(classes) = CanonicalLab(StartClasses)
    /\ teachers = StartTeachers
    /\ lab_rooms["Physics"] = <<>>

\* C12: a subject that enters the canonical set has no entry left over from
\* an earlier time it was canonical, and the sync gives it one empty teacher
\* slot and no lab room, created by that sync.
C12_FreshEntry ==
    /\ [][(~syncPending /\ syncPending') =>
            /\ (CanonicalTheory(classes') \ CanonicalTheory(classes))
                   \cap DOMAIN teachers = {}
            /\ (CanonicalLab(classes') \ CanonicalLab(classes))
                   \cap (DOMAIN lab_teachers \cup DOMAIN lab_rooms) = {}]_vars
    /\ [][(syncPending /\ ~syncPending') =>
            /\ \A s \in CanonicalTheory(classes') \ DOMAIN teachers :
                  /\ s \in DOMAIN teachers'
                  /\ teachers'[s] = <<"">>
                  /\ <<"teachers", s>> \in fresh'
            /\ \A s \in CanonicalLab(classes') \ DOMAIN lab_teachers :
                  /\ s \in DOMAIN lab_teachers'
                  /\ lab_teachers'[s] = <<"">>
                  /\ <<"lab_teachers", s>> \in fresh'
            /\ \A s \in CanonicalLab(classes') \ DOMAIN lab_rooms :
                  /\ s \in DOMAIN lab_rooms'
                  /\ lab_rooms'[s] = <<>>
                  /\ <<"lab_rooms", s>> \in fresh']_vars

\* Math, which had the teacher Dr.X at the start, was taken out and has just
\* been put back under the same name
C12_Witness ==
    /\ ~syncPending
    /\ classes = StartClasses
    /\ <<"teachers", "Math">> \in fresh
    /\ teachers["Math"] = <<"">>

(***************************************************************************)
(* Claims about the lecture requirements (SpecLecture)                     *)
(***************************************************************************)
\* C13: once the sync effect has run, every key of lecture_requirements is a
\* canonical theory subject or a canonical lab subject.
C13_NoOrphanRequirement ==
    ~syncPending =>
        DOMAIN lecture_requirements
            \subseteq CanonicalTheory(classes) \cup CanonicalLab(classes)

(***************************************************************************)
(* Claims about the rendered cells (SpecRender)                            *)
(***************************************************************************)
\* The positions in the timetable of the entries of the rendered cell
CellEntries ==
    {i \in 1..Len(props.timetable) :
        /\ props.timetable[i].section = cell.section
        /\ props.timetable[i].day = cell.day
        /\ props.timetable[i].slot = cell.slot}

\* How often an entry is shown in a list of the cell
Shown(list, item) == Cardinality({j \in 1..Len(list) : list[j] = item})

\* How often an entry is in the timetable at the rendered cell
Scheduled(item) == Cardinality({i \in CellEntries : props.timetable[i] = item})

\* The lab subjects of the class the configuration lists the section under
LabSubjectsOf(section) ==
    UNION {Range(props.classes[i].lab_subjects) :
              i \in {j \in 1..Len(props.classes) :
                        section = props.classes[j].name \o " - " \o "A"}}

\* The group the claim puts an entry in
GroupOf(item) ==
    IF item.subject = "Workshop" THEN "workshops"
    ELSE IF item.subject \in LabSubjectsOf(item.section) THEN "labs"
    ELSE "nonLabs"

\* C14: in a rendered cell that is neither lunch nor empty every entry of the
\* cell is shown in exactly one group: the workshop group when its subject is
\* 'Workshop', else the lab group when the subject is a lab subject of the
\* class, else the theory group; none is shown twice and none is dropped.
C14_OneGroupEach ==
    (cell # Null /\ cell.slot # "Lunch Break" /\ CellEntries # {}) =>
        \A i \in CellEntries :
            LET item == props.timetable[i]
            IN  \A g \in {"workshops", "labs", "nonLabs"} :
                    Shown(cell.td[g], item) =
                        IF g = GroupOf(item) THEN Scheduled(item) ELSE 0

\* C15: the cell of the slot 'Lunch Break' is the lunch cell whatever is
\* scheduled there; the cell of another slot with no entry is the empty cell,
\* which is not the lunch cell; the cell of another slot with an entry is an
\* entry cell that shows entries.
C15_LunchEmptyEntry ==
    cell # Null =>
        /\ cell.slot = "Lunch Break" => cell.td = LunchCell
        /\ (cell.slot # "Lunch Break" /\ CellEntries = {}) =>
              /\ cell.td = EmptyCell
              /\ cell.td.className # LunchCell.className
              /\ cell.td.text # LunchCell.text
        /\ (cell.slot # "Lunch Break" /\ CellEntries # {}) =>
              /\ cell.td.className \notin {LunchCell.className, EmptyCell.className}
              /\ Len(cell.td.labs) + Len(cell.td.nonLabs) + Len(cell.td.workshops) > 0

\* The lunch cell of a slot that has entries and of one that has none, and
\* the empty and the entry cell
C15_WitnessLunchWithEntries ==
    /\ cell # Null
    /\ cell.slot = "Lunch Break"
    /\ CellEntries # {}
    /\ cell.td = LunchCell

(***************************************************************************)
(* Claims about the app (SpecApp)                                          *)
(***************************************************************************)
\* reader.onload runs in this step
Loaded == Reading /\ ~Reading'

\* A handler of the form replaces inputData.classes in this step
FormEdited ==
    /\ currentStep = "input"
    /\ currentStep' = "input"
    /\ classes' # classes

\* The fields of a configuration
ConfigFields == DOMAIN InitialConfig

\* C16: when the text of the imported file is not JSON, the handler leaves
\* the configuration, the validity flag, the step and the stored copy as they
\* are, schedules no save, and shows the import error.
C16_MalformedImportRejected ==
    [][(Loaded /\ ~WellFormed(reader.result)) =>
        /\ UNCHANGED <<inputData, isValidInput, currentStep, stored, savePending>>
        /\ alertMessage' = ImportError]_vars

\* The last file read was not JSON; a valid configuration imported before it
\* is still held, stored and shown in the step 'generate'
C16_Witness ==
    /\ reader # Null
    /\ reader.readyState = "DONE"
    /\ ~WellFormed(reader.result)
    /\ alertMessage = ImportError
    /\ inputData = DocValid
    /\ stored = Stringify(DocValid)
    /\ isValidInput
    /\ currentStep = "generate"

\* C17: after a well-formed file is imported, the configuration has exactly
\* the fields of the form's configuration, and every field the file lacks
\* holds its initial default.
C17_ImportFillsDefaults ==
    [][(Loaded /\ WellFormed(reader.result)) =>
        /\ inputData' # Null
        /\ DOMAIN inputData' = ConfigFields
        /\ \A f \in ConfigFields :
              ~Has(Parse(reader.result), f) => inputData'[f] = InitialConfig[f]]_vars

\* C18: a form edit is followed by a save of the edited configuration; when
\* no effect is scheduled the stored text is the serialization of the
\* configuration the app holds; Clear All removes the stored text; the stored
\* configuration is not loaded a second time.
C18_StoredIsCurrent ==
    /\ [][FormEdited =>
            (savePending' \/ stored' = Stringify(FormConfig'))]_vars
    /\ [](Settled /\ inputData # Null => stored = Stringify(inputData))
    /\ [][(inputData # Null /\ inputData' = Null /\ UNCHANGED reader) =>
            stored' = Null]_vars
    /\ [][~loadPending => ~loadPending']_vars

\* The configuration is complete: a class, every class with a name, a section
\* and a subject or lab subject, a day and a slot
Complete(config) ==
    /\ Has(config, "classes")
    /\ Len(config.classes) > 0
    /\ \A i \in 1..Len(config.classes) :
          /\ config.classes[i] # Null
          /\ config.classes[i].name # ""
          /\ Len(config.classes[i].sections) > 0
          /\ Len(config.classes[i].subjects) + Len(config.classes[i].lab_subjects) > 0
    /\ Has(config, "days")
    /\ Len(config.days) > 0
    /\ Has(config, "slots")
    /\ Len(config.slots) > 0

\* C19: the app is in the step 'generate', where the Solver is called, only
\* while the configuration it holds is complete.
C19_GenerateOnlyWhenComplete ==
    currentStep = "generate" => Complete(inputData)

\* C20: after a form edit the configuration the app holds is the one the
\* form holds.
C20_SingleConfiguration ==
    [][FormEdited => inputData' = FormConfig']_vars

(***************************************************************************)
(* Claims about the variants and the navigation (SpecNav)                  *)
(***************************************************************************)
\* The list of variants is cleared on purpose in this step: Clear All, or the
\* click on Generate that empties the list for the new batch
ExplicitClear ==
    \/ inputData # Null /\ inputData' = Null
    \/ Len(batches') > Len(batches)

\* C21: a variant of the list is still in the list after every step that is
\* not an explicit clear.
C21_VariantsPersist ==
    [][ExplicitClear \/
       \A i \in 1..Len(timetables) :
          \E j \in 1..Len(timetables') : timetables'[j].id = timetables[i].id]_vars

(***************************************************************************)
(* Claims about the teacher reset (SpecGen)                                *)
(***************************************************************************)
\* C22: when a reset completes, with success or with failure, the list keeps
\* its length and every variant other than the one the reset was clicked on
\* is what it was before the completion.
C22_ResetLeavesOthers ==
    [][(Len(resets') < Len(resets)) =>
        \E k \in 1..Len(resets) :
            /\ resets' = RemoveAt(resets, k)
            /\ Len(timetables') = Len(timetables)
            /\ \A j \in 1..Len(timetables) :
                  j # resets[k].currentTimetable + 1 =>
                      timetables'[j] = timetables[j]]_vars

\* The body of a request: every field of the configuration unchanged, plus
\* the two fields of the variation tag
CarriesConfig(request, config) ==
    /\ DOMAIN request = (DOMAIN config) \cup {"_generation_seed", "_variation"}
    /\ \A f \in DOMAIN config : request[f] = config[f]
    /\ request._generation_seed \in Seeds

\* C23: a batch of count N sends exactly N generate requests, request number
\* j with variation index j (so no index is sent twice, a failed request is
\* not sent again, and every tag differs from the other tags of the batch);
\* the call returns only after request N was sent; every request carries all
\* fields of the configuration unchanged plus the tag; and the configuration
\* held by the application is the one the call was given.
C23_OneRequestPerIndex ==
    /\ [](\A k \in 1..Len(batches) :
            LET b == batches[k]
            IN  /\ Len(b.sent) \in 1..b.count
                /\ \A j \in 1..Len(b.sent) : b.sent[j] = j
                /\ b.inputData = inputData
                /\ b.waiting = "response" =>
                      /\ CarriesConfig(b.request, inputData)
                      /\ b.request._variation = Len(b.sent))
    /\ [][/\ inputData' = inputData
          /\ (Len(batches') < Len(batches)) =>
                \E k \in 1..Len(batches) :
                    /\ batches' = RemoveAt(batches, k)
                    /\ Len(batches[k].sent) = batches[k].count]_vars

\* Witness C23: a batch of three has sent its third request after a failure
C23_Witness ==
    \E k \in 1..Len(batches) :
        /\ batches[k].count = 3
        /\ batches[k].sent = <<1, 2, 3>>
        /\ Len(batches[k].errors) >= 1
        /\ batches[k].waiting = "response"

\* The outcome of a failed generate request number i of the call b: no
\* variant of that request, and the error of variation i + 1 recorded with
\* the message msg (or, when the call returns with it, the variants of the
\* other requests shown, or the batch error when there are none)
GenerateFailed(k, msg) ==
    LET b == batches[k]
        record == [variation |-> b.i + 1, error |-> msg]
    IN  IF Len(batches') = Len(batches)
        THEN /\ batches'[k].results = b.results
             /\ batches'[k].errors = Append(b.errors, record)
             /\ timetables' = timetables
        ELSE /\ b.i + 1 = b.count
             /\ batches' = RemoveAt(batches, k)
             /\ IF b.results = <<>>
                  THEN /\ timetables' = timetables
                       /\ error' = "No timetables could be generated"
                  ELSE /\ timetables' = b.results
                       /\ \A j \in 1..Len(timetables') :
                             timetables'[j].id # b.i + 1

\* C24: in the generate call and in the reset call, a response with a
\* non-success status and a 200 response whose body has an error field have
\* the same outcome: the call fails, no Variant is created or modified, and
\* the failure is recorded with the message of the response (the error of that
\* variation in a generate call, the error message in a reset).
C24_BothShapesFail ==
    [][/\ \A k \in 1..Len(batches) :
             /\ generateResponseFail(k, "status") =>
                   GenerateFailed(k, "HTTP 500: INTERNAL SERVER ERROR")
             /\ generateResponseFail(k, "error field") =>
                   GenerateFailed(k, "solver error")
       /\ \A k \in 1..Len(resets) :
             /\ resetResponseFail(k, "status") =>
                   /\ timetables' = timetables
                   /\ error' = "Failed to reset teacher: HTTP 500: INTERNAL SERVER ERROR"
                   /\ resets' = RemoveAt(resets, k)
             /\ resetResponseFail(k, "error field") =>
                   /\ timetables' = timetables
                   /\ error' = "Failed to reset teacher: solver error"
                   /\ resets' = RemoveAt(resets, k)]_vars

\* Witness C24: a generate call has recorded a failure of each shape, and a
\* reset has failed with an error field
C24_Witness ==
    /\ \E k \in 1..Len(batches) :
          /\ \E j \in 1..Len(batches[k].errors) :
                batches[k].errors[j].error = "solver error"
          /\ \E j \in 1..Len(batches[k].errors) :
                batches[k].errors[j].error = "HTTP 500: INTERNAL SERVER ERROR"
    /\ error = "Failed to reset teacher: solver error"

\* The keys whose presence or value differs between two maps
ChangedKeys(old, new) ==
    {s \in (DOMAIN old) \cup (DOMAIN new) :
        IF s \in (DOMAIN old) \cap (DOMAIN new) THEN old[s] # new[s] ELSE TRUE}

\* C25: a value edit (addTeacher, updateTeacher, removeTeacher,
\* toggleLabRoomAssignment, selectAllLabRooms, clearAllLabRooms), which runs
\* once the sync has settled, changes the value of one subject of the current
\* canonical set in one dependent map and nothing else: no key is added or
\* removed and the values of all other keys stay as they were.
C25_ValueEditFrame ==
    [][~syncPending =>
        /\ DOMAIN teachers' = DOMAIN teachers
        /\ DOMAIN lab_teachers' = DOMAIN lab_teachers
        /\ DOMAIN lab_rooms' = DOMAIN lab_rooms
        /\ ChangedKeys(teachers, teachers') \subseteq getAllSubjects(classes)
        /\ ChangedKeys(lab_teachers, lab_teachers') \subseteq getAllLabSubjects(classes)
        /\ ChangedKeys(lab_rooms, lab_rooms') \subseteq getAllLabSubjects(classes)
        /\ Cardinality(ChangedKeys(teachers, teachers'))
              + Cardinality(ChangedKeys(lab_teachers, lab_teachers'))
              + Cardinality(ChangedKeys(lab_rooms, lab_rooms')) <= 1]_vars

\* Witness C25: the teacher row of Math was edited while Physics holds Dr.X,
\* and the lab rooms of Physics were cleared
C25_Witness ==
    /\ fresh = {<<"teachers", "Math">>}
    /\ DOMAIN teachers = {"Math", "Physics"}
    /\ teachers["Math"] = <<"">>
    /\ teachers["Physics"] = <<"Dr.X">>
    /\ DOMAIN lab_rooms = {"Physics"}
    /\ lab_rooms["Physics"] = <<>>

\* A list in which no element occurs twice
NoRepeats(list) ==
    \A i, j \in 1..Len(list) : list[i] = list[j] => i = j

\* C26: after any sequence of toggleLabRoomAssignment, selectAllLabRooms,
\* clearAllLabRooms and edits of the lab list (addRoom, updateRoom,
\* removeRoom), no room name occurs twice in lab_rooms[subject].
C26_RoomsAreSet ==
    \A s \in DOMAIN lab_rooms : NoRepeats(lab_rooms[s])

\* C27: a successful reset replaces the entries of the selected variant and
\* nothing else of it: id, statistics, unfulfilled and generated_at stay as
\* they are, and the name gets ' (Modified)' appended, once for each
\* successful repair.
C27_ResetKeepsRest ==
    [][\A k \in 1..Len(resets), timetable \in ResetAnswers :
          resetResponseOk(k, timetable) =>
              LET j == resets[k].currentTimetable + 1
              IN  /\ j \in 1..Len(timetables)
                  /\ j \in 1..Len(timetables')
                  /\ timetables'[j].id = timetables[j].id
                  /\ timetables'[j].generated_at = timetables[j].generated_at
                  /\ timetables'[j].data.statistics = timetables[j].data.statistics
                  /\ timetables'[j].data.unfulfilled = timetables[j].data.unfulfilled
                  /\ timetables'[j].data.timetable = timetable
                  /\ timetables'[j].name = timetables[j].name \o " (Modified)"]_vars

\* C28: whenever the list of variants is not empty, the selected index is a
\* position of it: 0 <= currentTimetable < number of variants, under every
\* interleaving of generate, tab selection, reset and their completions.
C28_SelectionInRange ==
    Len(timetables) > 0 => currentTimetable \in 0..(Len(timetables) - 1)

\* The Solver operations that have not completed: generate calls and resets
Outstanding == Len(batches) + Len(resets)

\* C29: loading is true if and only if at least one Solver operation is
\* outstanding; the completion of one operation does not clear the flag while
\* another operation is outstanding.
C29_LoadingIffOutstanding == loading <=> (Outstanding > 0)

(***************************************************************************)
(* The generator with a Solver that answers every request and a browser    *)
(* that fires every timer                                                  *)
(***************************************************************************)
\* The Solver answers the request that the generate call at position k waits for
GenerateAnswer(k) ==
    \/ \E data \in GenerateAnswers : generateResponseOk(k, data)
    \/ \E kind \in FailureKinds : generateResponseFail(k, kind)

\* The Solver answers the reset at position k
ResetAnswer(k) ==
    \/ \E timetable \in ResetAnswers : resetResponseOk(k, timetable)
    \/ \E kind \in FailureKinds : resetResponseFail(k, kind)

\* Positions of the operations that are outstanding at one time
Positions == 1..(MaxResets + 1)

SpecGenFair ==
    /\ SpecGen
    /\ \A k \in Positions :
          /\ WF_vars(GenerateAnswer(k))
          /\ WF_vars(generateTimer(k))
          /\ WF_vars(ResetAnswer(k))

\* The generate call that is outstanding longest returns
OldestBatchReturns == batches # <<>> /\ batches' = RemoveAt(batches, 1)

\* The reset that is outstanding longest completes
OldestResetCompletes == resets # <<>> /\ resets' = RemoveAt(resets, 1)

\* C30: when the Solver answers every request, every generate batch and every
\* reset completes (the one outstanding longest always returns, so each one
\* gets its turn; answers that are failures count) and loading returns to
\* false.
C30_EveryOperationCompletes ==
    /\ (<>[](batches # <<>>)) => []<><<OldestBatchReturns>>_vars
    /\ (<>[](resets # <<>>)) => []<><<OldestResetCompletes>>_vars
    /\ loading ~> ~loading

\* Witness C30: every request of a batch has failed, the batch has returned
\* and loading is false again
C30_Witness ==
    /\ error = "No timetables could be generated"
    /\ batches = <<>>
    /\ resets = <<>>
    /\ ~loading
====
